---------------------------- MODULE Spec2Model ----------------------------
(***************************************************************************)
(* Model of CuniControlSkillLambda.py: an Alexa skill handler that maps    *)
(* intents onto reads and writes of two AWS IoT device shadows (cam0 and   *)
(* MegaIf1) and answers with a fixed-shape response envelope.              *)
(*                                                                         *)
(* One invocation of lambda_handler is one step.  Its inputs are the event *)
(* (session + request) and the behaviour of the boto3 iot-data client for  *)
(* that invocation (whether the remote call succeeds, and the reported     *)
(* state document of MegaIf1).  Its outputs are the value returned or the  *)
(* exception raised, and the list of shadow calls it issued.               *)
(*                                                                         *)
(* Python values that are not always strings are carried as tagged         *)
(* records (PyStr, PyInt, None); values that the code always concatenates  *)
(* to a literal (titles, speech output, slot values) are plain strings.    *)
(* A Python dict is a function whose DOMAIN is its key set; {} is <<>>.    *)
(***************************************************************************)
EXTENDS Integers, Sequences, FiniteSets, TLC

VARIABLES
    event,      \* the event passed to lambda_handler
    client,     \* behaviour of the module-level boto3 client in this invocation
    calls,      \* shadow calls issued so far by this invocation, in order
    result,     \* Pending, Ret(value) or Raise(exception)
    brArgs,     \* arguments of a direct call of build_response
    brOut       \* its result

vars == <<event, client, calls, result, brArgs, brOut>>

----------------------------------------------------------------------------
(* Bounds *)

\* numeric readings of the MegaIf1 shadow range over 0..MaxReading
MaxReading == 1

----------------------------------------------------------------------------
(* Python values and outcomes *)

None == [ty |-> "None"]
PyStr(s) == [ty |-> "str", s |-> s]
PyInt(n) == [ty |-> "int", n |-> n]

Pending == [kind |-> "pending"]
Ret(v) == [kind |-> "return", value |-> v]
Raise(e) == [kind |-> "raise", exc |-> e]

\* what a function did: its outcome and the shadow calls it issued
Done(out, cs) == [out |-> out, calls |-> cs]

\* outcomes of one remote call
RemoteOk == "ok"
RemoteUnavailable == "EndpointConnectionError"
RemoteRejected == "ClientError"
RemoteOutcomes == {RemoteOk, RemoteUnavailable, RemoteRejected}

----------------------------------------------------------------------------
(* Helpers that build all of the responses *)

\* variant: leaves the reprompt field out when there is no reprompt text
build_speechlet_response_no_reprompt(title, output, reprompt_text, should_end_session) ==
    IF reprompt_text = None
    THEN [outputSpeech |-> [type |-> "PlainText", text |-> output],
          card |-> [type |-> "Simple",
                    title |-> "SessionSpeechlet - " \o title,
                    content |-> "SessionSpeechlet - " \o output],
          shouldEndSession |-> should_end_session]
    ELSE [outputSpeech |-> [type |-> "PlainText", text |-> output],
          card |-> [type |-> "Simple",
                    title |-> "SessionSpeechlet - " \o title,
                    content |-> "SessionSpeechlet - " \o output],
          reprompt |-> [outputSpeech |-> [type |-> "PlainText",
                                          text |-> reprompt_text]],
          shouldEndSession |-> should_end_session]

build_speechlet_response(title, output, reprompt_text, should_end_session) ==
    [outputSpeech |-> [type |-> "PlainText", text |-> output],
     card |-> [type |-> "Simple",
               title |-> "SessionSpeechlet - " \o title,
               content |-> "SessionSpeechlet - " \o output],
     reprompt |-> [outputSpeech |-> [type |-> "PlainText",
                                     text |-> reprompt_text]],
     shouldEndSession |-> should_end_session]

\* variant: starts the envelope from fresh session attributes
build_response_fresh(session_attributes, speechlet_response) ==
    [version |-> "1.0",
     sessionAttributes |-> <<>>,
     response |-> speechlet_response]

build_response(session_attributes, speechlet_response) ==
    [version |-> "1.0",
     sessionAttributes |-> session_attributes,
     response |-> speechlet_response]

----------------------------------------------------------------------------
(* Helpers to update the shadow devices *)

\* the characters json.dumps writes as they are: space..~ without " and \
\* (the grave accent U+0060 is one of them, but no string here can hold it)
PlainAscii ==
    " !#$%&'()*+,-./0123456789:;<=>?@ABCDEFGHIJKLMNOPQRSTUVWXYZ[]^_abcdefghijklmnopqrstuvwxyz{|}~"

\* the characters U+00A0..U+00FF in code point order
Latin1 ==
    " ¡¢£¤¥¦§¨©ª«¬­®¯°±²³´µ¶·¸¹º»¼½¾¿ÀÁÂÃÄÅÆÇÈÉÊËÌÍÎÏÐÑÒÓÔÕÖ×ØÙÚÛÜÝÞßàáâãäåæçèéêëìíîïðñòóôõö÷øùúûüýþÿ"

HexDigit(n) == SubSeq("0123456789abcdef", n + 1, n + 1)

\* '\\u{0:04x}'.format(n) for n < 65536
HexEscape(n) ==
    "\\u" \o HexDigit(n \div 4096) \o HexDigit((n \div 256) % 16)
          \o HexDigit((n \div 16) % 16) \o HexDigit(n % 16)

IndexIn(table, c) == CHOOSE i \in 1..Len(table) : SubSeq(table, i, i) = c

PlainAsciiChars == {SubSeq(PlainAscii, i, i) : i \in 1..Len(PlainAscii)}

\* ord(c) for the characters of Latin1
Latin1Ord == [c \in {SubSeq(Latin1, i, i) : i \in 1..Len(Latin1)} |->
                 159 + IndexIn(Latin1, c)]

\* json.encoder ESCAPE_DCT and the \uXXXX replacement of ensure_ascii, for
\* one character c: printable ASCII, tab, newline, form feed, carriage
\* return or U+00A0..U+00FF
escape_char(c) ==
    IF c = "\"" THEN "\\\""
    ELSE IF c = "\\" THEN "\\\\"
    ELSE IF c = "\n" THEN "\\n"
    ELSE IF c = "\r" THEN "\\r"
    ELSE IF c = "\t" THEN "\\t"
    ELSE IF c = "\f" THEN "\\f"
    ELSE IF c \in PlainAsciiChars THEN c
    ELSE HexEscape(Latin1Ord[c])

RECURSIVE escape_chars(_)
escape_chars(s) ==
    IF s = "" THEN ""
    ELSE escape_char(SubSeq(s, 1, 1)) \o escape_chars(SubSeq(s, 2, Len(s)))

\* json.encoder.encode_basestring_ascii: the JSON text of a str
encode_basestring_ascii(s) == "\"" \o escape_chars(s) \o "\""

\* the part of the text that does not depend on the arguments
JsonHead ==
    "{" \o encode_basestring_ascii("state") \o ": {"
        \o encode_basestring_ascii("desired") \o ": {"

\* json.dumps({'state': {'desired': {desiredProperty: state}}}) for a str state
json_dumps(desiredProperty, state) ==
    JsonHead \o encode_basestring_ascii(desiredProperty) \o ": "
             \o encode_basestring_ascii(state) \o "}}}"

set_thing_state(thingName, desiredProperty, state, cl) ==
    LET payload == json_dumps(desiredProperty, state)
        call == [op |-> "update_thing_shadow",
                 thingName |-> thingName,
                 payload |-> payload]
    IN  IF cl.remote = RemoteOk
        THEN Done(Ret([payload |-> payload]), <<call>>)
        ELSE Done(Raise(cl.remote), <<call>>)

\* variant: repeats the read once when the remote call fails
get_thing_state_retry(thingName, thingProperty, cl) ==
    LET call == [op |-> "get_thing_shadow", thingName |-> thingName]
    IN  IF cl.remote # RemoteOk
        THEN Done(Raise(cl.remote), <<call, call>>)
        ELSE IF thingProperty \notin DOMAIN cl.reported
        THEN Done(Raise("KeyError"), <<call>>)
        ELSE Done(Ret(cl.reported[thingProperty]), <<call>>)

get_thing_state(thingName, thingProperty, cl) ==
    LET call == [op |-> "get_thing_shadow", thingName |-> thingName]
    IN  IF cl.remote # RemoteOk
        THEN Done(Raise(cl.remote), <<call>>)
        ELSE IF thingProperty \notin DOMAIN cl.reported
        THEN Done(Raise("KeyError"), <<call>>)
        ELSE Done(Ret(cl.reported[thingProperty]), <<call>>)

----------------------------------------------------------------------------
(* Functions that control the skill's behavior *)

WelcomeSpeech ==
    "Welcome to the Cuni Control. "
    \o "You can find any COCO data set object by saying, Find a book, TV, Mouse, bottle other objects.  "
    \o "You can also ask, What is the temperature or humidity."

WelcomeReprompt ==
    "Please tell what to find, "
    \o "a fork, spoon, knife, chair, or potted plant."

get_welcome_response ==
    Done(Ret(build_response(<<>>,
             build_speechlet_response("Welcome", WelcomeSpeech,
                                      PyStr(WelcomeReprompt), FALSE))),
         <<>>)

FarewellSpeech == "Thank you for trying Cuni Control. " \o "Have a nice day! "

handle_session_end_request ==
    Done(Ret(build_response(<<>>,
             build_speechlet_response("Session Ended", FarewellSpeech,
                                      None, TRUE))),
         <<>>)

\* variant: should_end_session keeps its initial value False after the update
set_find_object_never_ends(intent, session, cl) ==
    IF "CocoLabel" \in DOMAIN intent.slots
    THEN LET find_object == intent.slots["CocoLabel"].value
             upd == set_thing_state("cam0", "find", find_object, cl)
         IN  IF upd.out.kind = "raise"
             THEN upd
             ELSE Done(Ret(build_response(<<>>,
                           build_speechlet_response(
                               intent.name,
                               "I am now looking for a " \o find_object,
                               PyStr(""), FALSE))),
                       upd.calls)
    ELSE Done(Ret(build_response(<<>>,
                  build_speechlet_response(
                      intent.name,
                      "I'm not sure what you want me to find. "
                          \o "Please try again.",
                      PyStr("I'm not sure what you want me to find. "
                          \o "You can ask me to look for objects by saying, "
                          \o "Find a fork, knife, or spoon."),
                      FALSE))),
              <<>>)

\* variant: the missing-slot branch uses the empty reprompt of the other branch
set_find_object_empty_reprompt(intent, session, cl) ==
    IF "CocoLabel" \in DOMAIN intent.slots
    THEN LET find_object == intent.slots["CocoLabel"].value
             upd == set_thing_state("cam0", "find", find_object, cl)
         IN  IF upd.out.kind = "raise"
             THEN upd
             ELSE Done(Ret(build_response(<<>>,
                           build_speechlet_response(
                               intent.name,
                               "I am now looking for a " \o find_object,
                               PyStr(""), TRUE))),
                       upd.calls)
    ELSE Done(Ret(build_response(<<>>,
                  build_speechlet_response(
                      intent.name,
                      "I'm not sure what you want me to find. "
                          \o "Please try again.",
                      PyStr(""),
                      FALSE))),
              <<>>)

set_find_object(intent, session, cl) ==
    IF "CocoLabel" \in DOMAIN intent.slots
    THEN LET find_object == intent.slots["CocoLabel"].value
             upd == set_thing_state("cam0", "find", find_object, cl)
         IN  IF upd.out.kind = "raise"
             THEN upd
             ELSE Done(Ret(build_response(<<>>,
                           build_speechlet_response(
                               intent.name,
                               "I am now looking for a " \o find_object,
                               PyStr(""), TRUE))),
                       upd.calls)
    ELSE Done(Ret(build_response(<<>>,
                  build_speechlet_response(
                      intent.name,
                      "I'm not sure what you want me to find. "
                          \o "Please try again.",
                      PyStr("I'm not sure what you want me to find. "
                          \o "You can ask me to look for objects by saying, "
                          \o "Find a fork, knife, or spoon."),
                      FALSE))),
              <<>>)

\* variant: hands the session's attributes back in the envelope
get_temp_echo(intent, session, cl) ==
    LET rd == get_thing_state("MegaIf1", "TemperatureF", cl)
    IN  IF rd.out.kind = "raise"
        THEN rd
        ELSE LET temp == rd.out.value
             IN  IF temp.ty # "str"
                 THEN Done(Raise("TypeError"), rd.calls)
                 ELSE Done(Ret(build_response(session.attributes,
                               build_speechlet_response(
                                   intent.name,
                                   "The temperature is " \o temp.s
                                       \o " degrees. " \o ". Goodbye.",
                                   None, TRUE))),
                           rd.calls)

get_temp(intent, session, cl) ==
    LET rd == get_thing_state("MegaIf1", "TemperatureF", cl)
    IN  IF rd.out.kind = "raise"
        THEN rd
        ELSE LET temp == rd.out.value
             IN  IF temp.ty # "str"
                 THEN Done(Raise("TypeError"), rd.calls)
                 ELSE Done(Ret(build_response(<<>>,
                               build_speechlet_response(
                                   intent.name,
                                   "The temperature is " \o temp.s
                                       \o " degrees. " \o ". Goodbye.",
                                   None, TRUE))),
                           rd.calls)

get_humidity(intent, session, cl) ==
    LET rd == get_thing_state("MegaIf1", "Humidity%", cl)
    IN  IF rd.out.kind = "raise"
        THEN rd
        ELSE LET humidity == rd.out.value
             IN  IF humidity.ty # "str"
                 THEN Done(Raise("TypeError"), rd.calls)
                 ELSE Done(Ret(build_response(<<>>,
                               build_speechlet_response(
                                   intent.name,
                                   "The humidity is " \o humidity.s
                                       \o " percent. " \o ". Goodbye.",
                                   None, TRUE))),
                           rd.calls)

\* variant: accepts only the angles of the documented range 0..180
set_pan_angle_checked(intent, session, cl) ==
    IF "angle" \in DOMAIN intent.slots
          /\ intent.slots["angle"].value \in {"0", "90", "180"}
    THEN LET pan_angle == intent.slots["angle"].value
             upd == set_thing_state("cam0", "panAngle", pan_angle, cl)
         IN  IF upd.out.kind = "raise"
             THEN upd
             ELSE Done(Ret(build_response(<<>>,
                           build_speechlet_response(
                               intent.name,
                               "I am setting the pan angle to " \o pan_angle,
                               None, FALSE))),
                       upd.calls)
    ELSE Done(Ret(build_response(<<>>,
                  build_speechlet_response(
                      intent.name,
                      "I'm not sure what your pan angle is. "
                          \o "Please try again.",
                      PyStr("I'm not sure what your pan angle is. "
                          \o "You can tell me your pan color by saying, "
                          \o "set pan angle to 90."),
                      FALSE))),
              <<>>)

set_pan_angle(intent, session, cl) ==
    IF "angle" \in DOMAIN intent.slots
    THEN LET pan_angle == intent.slots["angle"].value
             upd == set_thing_state("cam0", "panAngle", pan_angle, cl)
         IN  IF upd.out.kind = "raise"
             THEN upd
             ELSE Done(Ret(build_response(<<>>,
                           build_speechlet_response(
                               intent.name,
                               "I am setting the pan angle to " \o pan_angle,
                               None, FALSE))),
                       upd.calls)
    ELSE Done(Ret(build_response(<<>>,
                  build_speechlet_response(
                      intent.name,
                      "I'm not sure what your pan angle is. "
                          \o "Please try again.",
                      PyStr("I'm not sure what your pan angle is. "
                          \o "You can tell me your pan color by saying, "
                          \o "set pan angle to 90."),
                      FALSE))),
              <<>>)

----------------------------------------------------------------------------
(* Events *)

on_launch(launch_request, session) == get_welcome_response

\* variant: the last test joins the two names with "and"
on_intent_and(intent_request, session, cl) ==
    LET intent == intent_request.intent
        intent_name == intent_request.intent.name
    IN  IF intent_name = "FindObjectIntent"
        THEN set_find_object(intent, session, cl)
        ELSE IF intent_name = "GetTemperature"
        THEN get_temp(intent, session, cl)
        ELSE IF intent_name = "GetHumidity"
        THEN get_humidity(intent, session, cl)
        ELSE IF intent_name = "SetPanIntent"
        THEN set_pan_angle(intent, session, cl)
        ELSE IF intent_name = "AMAZON.HelpIntent"
        THEN get_welcome_response
        ELSE IF intent_name = "AMAZON.CancelIntent"
                /\ intent_name = "AMAZON.StopIntent"
        THEN handle_session_end_request
        ELSE Done(Raise("ValueError"), <<>>)

\* variant: an unmatched name gets the welcome response
on_intent_default(intent_request, session, cl) ==
    LET intent == intent_request.intent
        intent_name == intent_request.intent.name
    IN  IF intent_name = "FindObjectIntent"
        THEN set_find_object(intent, session, cl)
        ELSE IF intent_name = "GetTemperature"
        THEN get_temp(intent, session, cl)
        ELSE IF intent_name = "GetHumidity"
        THEN get_humidity(intent, session, cl)
        ELSE IF intent_name = "SetPanIntent"
        THEN set_pan_angle(intent, session, cl)
        ELSE IF intent_name = "AMAZON.HelpIntent"
        THEN get_welcome_response
        ELSE IF intent_name = "AMAZON.CancelIntent"
                \/ intent_name = "AMAZON.StopIntent"
        THEN handle_session_end_request
        ELSE get_welcome_response

on_intent(intent_request, session, cl) ==
    LET intent == intent_request.intent
        intent_name == intent_request.intent.name
    IN  IF intent_name = "FindObjectIntent"
        THEN set_find_object(intent, session, cl)
        ELSE IF intent_name = "GetTemperature"
        THEN get_temp(intent, session, cl)
        ELSE IF intent_name = "GetHumidity"
        THEN get_humidity(intent, session, cl)
        ELSE IF intent_name = "SetPanIntent"
        THEN set_pan_angle(intent, session, cl)
        ELSE IF intent_name = "AMAZON.HelpIntent"
        THEN get_welcome_response
        ELSE IF intent_name = "AMAZON.CancelIntent"
                \/ intent_name = "AMAZON.StopIntent"
        THEN handle_session_end_request
        ELSE Done(Raise("ValueError"), <<>>)

\* only prints; falls off the end of the function
on_session_ended(session_ended_request, session) == Done(Ret(None), <<>>)

----------------------------------------------------------------------------
(* Main handler *)

lambda_handler(ev, cl) ==
    IF ev.request.type = "LaunchRequest"
    THEN on_launch(ev.request, ev.session)
    ELSE IF ev.request.type = "IntentRequest"
    THEN on_intent(ev.request, ev.session, cl)
    ELSE IF ev.request.type = "SessionEndedRequest"
    THEN on_session_ended(ev.request, ev.session)
    ELSE Done(Ret(None), <<>>)

----------------------------------------------------------------------------
(* Inputs *)

SessionAttributes ==
    {<<>>, ("color" :> "red"), ("color" :> "red") @@ ("count" :> "2")}

Sessions ==
    [new : BOOLEAN,
     sessionId : {"session-1"},
     application : {[applicationId |-> "app-1"]},
     attributes : SessionAttributes]

SlotNames == {"CocoLabel", "angle"}
SlotValues == {"book", "270", "say \"hi\"", "a\\b", "two\nlines"}
Slots == UNION {[S -> [value : SlotValues]] : S \in SUBSET SlotNames}

KnownIntentNames ==
    {"FindObjectIntent", "GetTemperature", "GetHumidity", "SetPanIntent",
     "AMAZON.HelpIntent", "AMAZON.CancelIntent", "AMAZON.StopIntent"}
IntentNames == KnownIntentNames \cup {"AMAZON.FallbackIntent", "FindObject"}

Requests ==
    [type : {"LaunchRequest", "SessionEndedRequest", "CanFulfillIntentRequest"},
     requestId : {"request-1"}]
    \cup
    [type : {"IntentRequest"},
     requestId : {"request-1"},
     intent : [name : IntentNames, slots : Slots]]

Events == [session : Sessions, request : Requests]

\* reported values: strings, and numbers as in the schema of the module docstring
Readings == {PyStr("72"), PyStr("45.5")} \cup {PyInt(n) : n \in 0..MaxReading}
ReportedKeys == {"TemperatureF", "Humidity%"}
ReportedDocs == UNION {[S -> Readings] : S \in SUBSET ReportedKeys}

Clients == [remote : RemoteOutcomes, reported : ReportedDocs]

Speechlets ==
    {build_speechlet_response(t, o, r, e) :
        t \in {"Welcome", "GetTemperature"},
        o \in {"hello", ""},
        r \in {None, PyStr(""), PyStr("again")},
        e \in BOOLEAN}

BuildArgs ==
    [session_attributes : SessionAttributes \cup {("new" :> "x")},
     speechlet_response : Speechlets]

----------------------------------------------------------------------------
(* Specification of one invocation *)

NoEvent == CHOOSE e \in Events : e.request.type = "LaunchRequest"
NoClient == CHOOSE c \in Clients : c.remote = RemoteOk /\ c.reported = <<>>
NoArgs == CHOOSE a \in BuildArgs : a.session_attributes = <<>>

Init ==
    /\ event \in Events
    /\ client \in Clients
    /\ calls = <<>>
    /\ result = Pending
    /\ brArgs = NoArgs
    /\ brOut = Pending

LambdaHandler ==
    /\ result = Pending
    /\ LET r == lambda_handler(event, client)
       IN  /\ calls' = r.calls
           /\ result' = r.out
    /\ UNCHANGED <<event, client, brArgs, brOut>>

Next == LambdaHandler

Spec == Init /\ [][Next]_vars

----------------------------------------------------------------------------
(* Specification of the response builder as a pure function *)

InitBuild ==
    /\ event = NoEvent
    /\ client = NoClient
    /\ calls = <<>>
    /\ result = Pending
    /\ brArgs \in BuildArgs
    /\ brOut = Pending

BuildResponse ==
    /\ brOut = Pending
    /\ brOut' = Ret(build_response(brArgs.session_attributes,
                                   brArgs.speechlet_response))
    /\ UNCHANGED <<event, client, calls, result, brArgs>>

NextBuild == BuildResponse

SpecBuild == InitBuild /\ [][NextBuild]_vars

----------------------------------------------------------------------------
(* Vocabulary of the properties *)

Returned == result.kind = "return"
Raised == result.kind = "raise"
Finished == result # Pending

IsEnvelope(v) == DOMAIN v = {"version", "sessionAttributes", "response"}
ReturnedEnvelope == Returned /\ IsEnvelope(result.value)

IsLaunch == event.request.type = "LaunchRequest"
IsSessionEnd == event.request.type = "SessionEndedRequest"
IsIntentRequest == event.request.type = "IntentRequest"
IsIntent(n) == IsIntentRequest /\ event.request.intent.name = n
HasSlot(n) == IsIntentRequest /\ n \in DOMAIN event.request.intent.slots

SpeechText == result.value.response.outputSpeech.text
RepromptText == result.value.response.reprompt.outputSpeech.text
EndsSession == result.value.response.shouldEndSession

\* s occurs in text
Contains(text, s) ==
    \E i \in 1..(Len(text) - Len(s) + 1) : SubSeq(text, i, i + Len(s) - 1) = s

Char(s, i) == SubSeq(s, i, i)

HexValue(c) == IndexIn("0123456789abcdef", c) - 1

\* the character that the escape starting at position i (after the backslash)
\* of a JSON text stands for, and the number of characters the escape takes
Unescape(s, i) ==
    LET c == Char(s, i)
    IN  IF c = "n" THEN [ch |-> "\n", len |-> 1]
        ELSE IF c = "r" THEN [ch |-> "\r", len |-> 1]
        ELSE IF c = "t" THEN [ch |-> "\t", len |-> 1]
        ELSE IF c = "f" THEN [ch |-> "\f", len |-> 1]
        ELSE IF c = "u"
        THEN LET n == HexValue(Char(s, i + 1)) * 4096
                        + HexValue(Char(s, i + 2)) * 256
                        + HexValue(Char(s, i + 3)) * 16
                        + HexValue(Char(s, i + 4))
             IN  [ch |-> Char(Latin1, n - 159), len |-> 5]
        ELSE [ch |-> c, len |-> 1]

\* reads a JSON string whose opening quote is just before position i:
\* the str it denotes and the position after its closing quote
RECURSIVE ReadString(_, _, _)
ReadString(s, i, acc) ==
    IF i > Len(s) THEN [ok |-> FALSE, val |-> acc, next |-> i]
    ELSE IF Char(s, i) = "\"" THEN [ok |-> TRUE, val |-> acc, next |-> i + 1]
    ELSE IF Char(s, i) = "\\"
    THEN LET u == Unescape(s, i + 1)
         IN  ReadString(s, i + 1 + u.len, acc \o u.ch)
    ELSE ReadString(s, i + 1, acc \o Char(s, i))

\* text t stands at position i of s
At(s, i, t) == SubSeq(s, i, i + Len(t) - 1) = t

\* the desired-state delta that a shadow update payload carries: the dict under
\* state.desired of a JSON text of the form {"state": {"desired": {k: v}}},
\* read the way a JSON parser reads it; <<>> for any other text
DesiredDelta(payload) ==
    LET open == "{\"state\": {\"desired\": {\""
        k == ReadString(payload, Len(open) + 1, "")
        v == ReadString(payload, k.next + 3, "")
    IN  IF /\ At(payload, 1, open)
           /\ k.ok
           /\ At(payload, k.next, ": \"")
           /\ v.ok
           /\ SubSeq(payload, v.next, Len(payload)) = "}}}"
        THEN k.val :> v.val
        ELSE <<>>

IsUpdate(c) == c.op = "update_thing_shadow"
IsRead(c) == c.op = "get_thing_shadow"

----------------------------------------------------------------------------
(* Properties *)

\* the value of shouldEndSession that the documentation gives for each request
DocumentedEnd ==
    IF IsLaunch THEN FALSE
    ELSE event.request.intent.name \in
            {"FindObjectIntent", "GetTemperature", "GetHumidity",
             "AMAZON.StopIntent", "AMAZON.CancelIntent"}

\* C1 as stated: for every supported intent and every content of its slots,
\* the envelope returned has shouldEndSession equal to the documented value
\* (true for FindObject, GetTemperature, GetHumidity, Stop, Cancel; false for
\* Welcome, Help, SetPan).
C1_Original ==
    ReturnedEnvelope /\ (IsLaunch \/ IsIntentRequest) => EndsSession = DocumentedEnd

\* C1 (amended): the envelope returned for a launch or a supported intent has
\* shouldEndSession true for GetTemperature, GetHumidity, Stop, Cancel and for
\* FindObject with a CocoLabel slot; false for Welcome, Help, SetPan and for
\* FindObject without a CocoLabel slot.
C1_ShouldEndSession ==
    ReturnedEnvelope /\ (IsLaunch \/ IsIntentRequest) =>
        EndsSession =
            IF IsIntent("FindObjectIntent") THEN HasSlot("CocoLabel")
            ELSE DocumentedEnd

C1_Witness ==
    /\ IsIntent("FindObjectIntent") /\ HasSlot("CocoLabel")
    /\ ReturnedEnvelope /\ EndsSession = TRUE

FarewellText == "Thank you for trying Cuni Control. Have a nice day! "

IsFarewell(out) ==
    /\ out.kind = "return" /\ IsEnvelope(out.value)
    /\ out.value.response.outputSpeech.text = FarewellText
    /\ out.value.response.shouldEndSession = TRUE

\* C2 as stated: a Stop intent, a Cancel intent and a SessionEnd request each
\* make lambda_handler return the farewell envelope (farewell text as speech,
\* shouldEndSession = true).
C2_Original ==
    Finished /\ (IsIntent("AMAZON.StopIntent") \/ IsIntent("AMAZON.CancelIntent")
                    \/ IsSessionEnd)
        => IsFarewell(result)

\* C2 (amended): a Stop intent and a Cancel intent each make lambda_handler
\* return the farewell envelope; a SessionEnd request makes it return None,
\* with no envelope; none of the three issues a shadow call.
C2_Farewell ==
    /\ Finished /\ (IsIntent("AMAZON.StopIntent") \/ IsIntent("AMAZON.CancelIntent"))
        => IsFarewell(result) /\ calls = <<>>
    /\ Finished /\ IsSessionEnd => result = Ret(None) /\ calls = <<>>

C2_Witness == IsIntent("AMAZON.CancelIntent") /\ IsFarewell(result)

ResponseFields == {"outputSpeech", "card", "reprompt", "shouldEndSession"}

\* C3 as stated: every value that lambda_handler returns, for any request type
\* (launch, intent, session-end), is an envelope whose response object carries
\* the four fields outputSpeech, card, reprompt and shouldEndSession.
C3_Original ==
    Returned /\ (IsLaunch \/ IsIntentRequest \/ IsSessionEnd) =>
        IsEnvelope(result.value) /\ DOMAIN result.value.response = ResponseFields

\* C3 (amended): every value that lambda_handler returns for a launch or an
\* intent request is an envelope whose response object carries the four
\* fields outputSpeech, card, reprompt and shouldEndSession, also when the
\* reprompt text is None; for a session-end request it returns None.
C3_FourFields ==
    /\ Returned /\ (IsLaunch \/ IsIntentRequest) =>
        /\ IsEnvelope(result.value)
        /\ DOMAIN result.value.response = ResponseFields
        /\ DOMAIN result.value.response.reprompt = {"outputSpeech"}
        /\ "text" \in DOMAIN result.value.response.reprompt.outputSpeech
    /\ Finished /\ IsSessionEnd => result = Ret(None)

C3_Witness ==
    /\ IsIntent("GetHumidity") /\ ReturnedEnvelope
    /\ RepromptText = None
    /\ DOMAIN result.value.response = ResponseFields

\* C4: a write intent whose required slot is present issues exactly one
\* shadow update and no read, to thing cam0, whose payload carries a
\* desired-state delta of exactly one key: find = the CocoLabel value for
\* FindObject, panAngle = the angle value for SetPan, the value unchanged.
\* (a string with characters above U+007F cannot be kept in the state: for
\* those values the handler is applied to the intent of the state with the
\* slot value replaced)
C4_OneUpdate ==
    /\ Finished /\ IsIntent("FindObjectIntent") /\ HasSlot("CocoLabel") =>
        /\ Len(calls) = 1 /\ IsUpdate(calls[1]) /\ calls[1].thingName = "cam0"
        /\ DesiredDelta(calls[1].payload) =
              ("find" :> event.request.intent.slots["CocoLabel"].value)
        /\ \A v \in {"café", "¡ÿ 20°?"} :
              LET r == set_find_object(
                          [event.request.intent EXCEPT
                              !.slots["CocoLabel"].value = v],
                          event.session, client)
              IN  /\ Len(r.calls) = 1 /\ IsUpdate(r.calls[1])
                  /\ r.calls[1].thingName = "cam0"
                  /\ DesiredDelta(r.calls[1].payload) = ("find" :> v)
    /\ Finished /\ IsIntent("SetPanIntent") /\ HasSlot("angle") =>
        /\ Len(calls) = 1 /\ IsUpdate(calls[1]) /\ calls[1].thingName = "cam0"
        /\ DesiredDelta(calls[1].payload) =
              ("panAngle" :> event.request.intent.slots["angle"].value)
        /\ \A v \in {"café", "¡ÿ 20°?"} :
              LET r == set_pan_angle(
                          [event.request.intent EXCEPT
                              !.slots["angle"].value = v],
                          event.session, client)
              IN  /\ Len(r.calls) = 1 /\ IsUpdate(r.calls[1])
                  /\ r.calls[1].thingName = "cam0"
                  /\ DesiredDelta(r.calls[1].payload) = ("panAngle" :> v)

C4_Witness ==
    /\ IsIntent("SetPanIntent") /\ HasSlot("angle")
    /\ event.request.intent.slots["angle"].value = "say \"hi\""
    /\ Returned
    /\ calls = <<[op |-> "update_thing_shadow", thingName |-> "cam0",
                  payload |-> "{\"state\": {\"desired\": {\"panAngle\": \"say \\\"hi\\\"\"}}}"]>>

\* C5: when the required slot is missing (FindObject without CocoLabel, SetPan
\* without angle) the handler issues no shadow call and returns an envelope
\* with shouldEndSession = false and a non-empty reprompt text.
C5_MissingSlot ==
    Finished /\ \/ IsIntent("FindObjectIntent") /\ ~HasSlot("CocoLabel")
                \/ IsIntent("SetPanIntent") /\ ~HasSlot("angle")
        => /\ calls = <<>>
           /\ ReturnedEnvelope
           /\ EndsSession = FALSE
           /\ RepromptText.ty = "str"
           /\ Len(RepromptText.s) > 0

C5_Witness ==
    /\ IsIntent("FindObjectIntent") /\ ~HasSlot("CocoLabel") /\ HasSlot("angle")
    /\ ReturnedEnvelope /\ EndsSession = FALSE /\ calls = <<>>
    /\ Contains(RepromptText.s, "Find a fork")

RECURSIVE IntText(_)
IntText(n) ==
    LET d == SubSeq("0123456789", (n % 10) + 1, (n % 10) + 1)
    IN  IF n < 10 THEN d ELSE IntText(n \div 10) \o d

\* the text of a reported value
ValueText(v) == IF v.ty = "str" THEN v.s ELSE IntText(v.n)

ReadKey == IF IsIntent("GetTemperature") THEN "TemperatureF" ELSE "Humidity%"

\* C6: a read intent issues exactly one shadow read of thing MegaIf1 and no
\* update; when the reported state holds value v under the intent's key
\* (TemperatureF for GetTemperature, Humidity% for GetHumidity) the envelope
\* returned has v in its speech text and shouldEndSession = true.
C6_ReadSpeaksValue ==
    Finished /\ (IsIntent("GetTemperature") \/ IsIntent("GetHumidity")) =>
        /\ calls = <<[op |-> "get_thing_shadow", thingName |-> "MegaIf1"]>>
        /\ client.remote = RemoteOk /\ ReadKey \in DOMAIN client.reported =>
              /\ ReturnedEnvelope
              /\ Contains(SpeechText, ValueText(client.reported[ReadKey]))
              /\ EndsSession = TRUE

\* C7: an intent request whose name is outside the recognized names ends in
\* the invalid-intent failure (ValueError): nothing is returned and no shadow
\* call is issued.
C7_UnrecognizedIntent ==
    Finished /\ IsIntentRequest
             /\ event.request.intent.name \notin
                    {"FindObjectIntent", "GetTemperature", "GetHumidity",
                     "SetPanIntent", "AMAZON.HelpIntent",
                     "AMAZON.CancelIntent", "AMAZON.StopIntent"}
        => result = Raise("ValueError") /\ calls = <<>>

C7_Witness ==
    IsIntent("AMAZON.FallbackIntent") /\ HasSlot("CocoLabel")
        /\ result = Raise("ValueError")

\* C8: an invocation issues at most one shadow call; when that call fails
\* (the remote call errors, or the property is missing from a read) the
\* invocation ends in that failure, with nothing returned and no second call.
C8_NoRetry ==
    /\ Len(calls) <= 1
    /\ Finished /\ calls # <<>> /\ client.remote # RemoteOk =>
          result = Raise(client.remote) /\ Len(calls) = 1
    /\ Finished /\ (IsIntent("GetTemperature") \/ IsIntent("GetHumidity"))
                /\ client.remote = RemoteOk
                /\ ReadKey \notin DOMAIN client.reported =>
          result = Raise("KeyError") /\ Len(calls) = 1

C8_Witness ==
    /\ IsIntent("GetTemperature") /\ client.remote = RemoteUnavailable
    /\ result = Raise(RemoteUnavailable)
    /\ Len(calls) = 1 /\ IsRead(calls[1])

\* C9: build_response returns its session attributes unchanged, its speechlet
\* as the response field, and the version "1.0".
C9_BuildResponse ==
    brOut # Pending =>
        /\ brOut.value.sessionAttributes = brArgs.session_attributes
        /\ brOut.value.response = brArgs.speechlet_response
        /\ brOut.value.version = "1.0"
        /\ IsEnvelope(brOut.value)

C9_Witness ==
    /\ brOut # Pending
    /\ brArgs.session_attributes = ("color" :> "red") @@ ("count" :> "2")
    /\ brOut.value.sessionAttributes["count"] = "2"

\* C10 as stated: the envelope returned by lambda_handler carries every
\* attribute of the incoming session with its value unchanged.
C10_Original ==
    ReturnedEnvelope =>
        \A k \in DOMAIN event.session.attributes :
            /\ k \in DOMAIN result.value.sessionAttributes
            /\ result.value.sessionAttributes[k] = event.session.attributes[k]

\* C10 (amended): the envelope returned by lambda_handler carries empty
\* session attributes whatever the attributes of the incoming session; the
\* incoming attributes are never read and never returned.
C10_EmptyAttributes ==
    ReturnedEnvelope => DOMAIN result.value.sessionAttributes = {}

C10_Witness ==
    /\ DOMAIN event.session.attributes = {"color", "count"}
    /\ IsIntent("GetTemperature")
    /\ ReturnedEnvelope
    /\ DOMAIN result.value.sessionAttributes = {}

=============================================================================
